---- MODULE Spec2Model ----
(***************************************************************************)
(* The polling trading-bot engine of crypto_bot (utilssss/trading_bot.py   *)
(* and the control surface in crypto_bot/views.py) as a state machine.     *)
(*                                                                         *)
(* One bot configuration is modelled; bots are independent of each other.  *)
(* Volumes are counted in halves of a base-asset unit (3 = 1.5): every     *)
(* such value and every sum or difference of them is exact in binary       *)
(* floating point, so Python's float arithmetic and round() are modelled   *)
(* exactly on this grid.  Prices are counted in tenths.                    *)
(*                                                                         *)
(* A coroutine advances in steps: one step is the code from the point it   *)
(* resumes up to and including the database operation (or sleep) of the    *)
(* next await.  A pc value names the await the coroutine is suspended on,  *)
(* whose operation has already taken effect.  The request handlers of the  *)
(* views run in threads of their own and interleave with the coroutines    *)
(* at every access to the database or to RUNNING_BOTS.  The database is    *)
(* taken to be reliable: reads find the row and saves succeed.  The        *)
(* exchange is not: every call to it may fail.                             *)
(***************************************************************************)
EXTENDS Integers, Sequences, FiniteSets, TLC

\* ------------------------------------------------------------------ bounds
NTasks == 2
NReqs == 2
MaxRequests == 3
MaxVolume == 3
MinPrice == 98
MaxPrice == 104

Tasks == 1..NTasks
Reqs == 1..NReqs

VARIABLES
    cfg,        \* the persisted BotConfig row (status, counters, message)
    params,     \* its trading parameters, fixed after creation
    orders,     \* number of persisted Order rows of the configuration
    registry,   \* RUNNING_BOTS[bot_config_id]: a task, or 0 when absent
    task,       \* the asyncio tasks running simple_trading_bot_loop
    req,        \* the request handlers of the control surface
    issued,     \* number of control requests accepted so far
    quote,      \* one price computation of calculate_order_params
    reply,      \* the response returned last by a request handler
    bots,       \* bot/engine.py: bot_id in BotManager.bots
    bot,        \* bot/engine.py: the TradingBot of the id and its loop task
    is_active,  \* bot/engine.py: BotConfig.is_active of bot.models
    bot_status, \* bot/views.py: BotConfig.status of bot.models
    view,       \* bot/views.py: the activate request in progress
    mreq,       \* bot/engine.py: the call of the BotManager in progress
    mreply      \* bot/engine.py: what the last BotManager call returned

cryptoVars == <<cfg, params, orders, registry, task, req, issued, quote, reply>>
engineVars == <<bots, bot, is_active, bot_status, view, mreq, mreply>>
vars == <<cryptoVars, engineVars>>

\* ------------------------------------------------------- the persisted row
\* BotConfig as created: status idle, remaining_volume = total_order_volume.
NewBotConfig(total) ==
    [status |-> "idle", remaining |-> total, completed |-> 0,
     total_orders |-> 0, successful_orders |-> 0, msg |-> "none"]

\* No local copy held.
NoCopy ==
    [status |-> "none", remaining |-> 0, completed |-> 0,
     total_orders |-> 0, successful_orders |-> 0, msg |-> "none"]

\* update_bot_status(bot_config, status, message): sets both fields on the
\* caller's copy; the copy is then saved whole.
SetStatus(copy, status, message) ==
    [copy EXCEPT !.status = status, !.msg = message]

\* ------------------------------------------------------------- rounding
\* Python round(x, ndigits) on a value of h halves: with one or more
\* decimal places a multiple of 0.5 is returned unchanged; with none, the
\* ties x.5 go to the even integer (round-half-even).
PyRoundHalves(h, ndigits) ==
    IF ndigits >= 1 \/ h % 2 = 0 THEN h
    ELSE LET fl == (h - 1) \div 2
         IN IF fl % 2 = 0 THEN 2 * fl ELSE 2 * (fl + 1)

\* Python round(x, ndigits) on a value of v tenths: with one or more decimal
\* places it is returned unchanged; with none it goes to the nearest
\* integer, the ties x.5 to the even one.
PyRoundTenths(v, ndigits) ==
    IF ndigits >= 1 THEN v
    ELSE LET r == v % 10
             base == v - r
         IN IF r < 5 THEN base
            ELSE IF r > 5 THEN base + 10
            ELSE IF (base \div 10) % 2 = 0 THEN base ELSE base + 10

Min(a, b) == IF a <= b THEN a ELSE b

\* A calculate_order_params that takes per_order_volume whatever remains.
CalcQuantity_PerOrder(copy) ==
    PyRoundHalves(params.per_order_volume, params.quantity_decimal_places)

\* calculate_order_params, quantity: min(per_order_volume, remaining_volume)
\* rounded to quantity_decimal_places.
CalcQuantity(copy) ==
    PyRoundHalves(Min(params.per_order_volume, copy.remaining),
                  params.quantity_decimal_places)

\* calculate_order_params, price: random.uniform(highest_bid, lowest_ask)
\* rounded to decimal_places; draw is the value random.uniform returned.
CalcPrice(draw, decimal_places) == PyRoundTenths(draw, decimal_places)

\* A faulty update_bot_after_order that adds the quantity back to the
\* remaining volume; used to show that C5 tells the two apart.
AfterOrder_Adding(copy, quantity) ==
    [copy EXCEPT !.total_orders = @ + 1,
                 !.successful_orders = @ + 1,
                 !.remaining = @ + quantity,
                 !.completed = @ + quantity]

\* update_bot_after_order: the counters of the caller's copy after a
\* successful order of the given quantity.
AfterOrder(copy, quantity) ==
    [copy EXCEPT !.total_orders = @ + 1,
                 !.successful_orders = @ + 1,
                 !.remaining = @ - quantity,
                 !.completed = @ + quantity]

\* --------------------------------------------------------------- tasks
\* copy is the loop's bot_config, kept while the code still reads it; book
\* and calls are the order book of the current cycle and the exchange calls
\* made since the task started or last woke up; quantity is the quantity
\* of the order of the current cycle.
NoTask ==
    [pc |-> "none", copy |-> NoCopy, cancel |-> FALSE,
     book |-> "none", calls |-> {}, quantity |-> 0]

\* A task is alive from create_task until its coroutine has returned or
\* has been cancelled.
Alive(t) == task[t].pc \notin {"none", "finished"}

\* The awaits of the loop: a pending cancellation is delivered at any of
\* them.
LoopAwaits ==
    {"aw_init_read", "aw_init_err", "aw_refresh", "aw_completed",
     "sleep_retry", "sleep_fault", "aw_order_record", "sleeping"}

\* The awaits of the CancelledError handler (lines 170, 172).
HandlerAwaits == {"aw_cancel_read", "aw_cancel_write"}

\* bot/engine.py, TradingBot.__init__: not running, no task, stop_event
\* clear.  cancel is the cancellation requested of the task and not yet
\* delivered; session is the aiohttp session of the bot's exchange client
\* being open.
NoBot == [running |-> FALSE, stop_event |-> FALSE, pc |-> "none",
          cancel |-> FALSE, session |-> FALSE]

\* ------------------------------------------------------------- requests
IdleReq == [pc |-> "idle", copy |-> NoCopy, reset_volume |-> FALSE]

\* The handler returns the named response and holds nothing afterwards.
Return(r, result) ==
    /\ req' = [req EXCEPT ![r] = IdleReq]
    /\ reply' = result

\* The handler goes on, holding what it has read.
Goto(r, handler) ==
    /\ req' = [req EXCEPT ![r] = handler]
    /\ UNCHANGED reply

\* A new request is served by the lowest idle handler; MaxRequests bounds
\* the requests of one behaviour.
Accepts(r) ==
    /\ req[r].pc = "idle"
    /\ \A q \in Reqs : req[q].pc = "idle" => r <= q
    /\ issued < MaxRequests

NoQuote ==
    [bid |-> 0, ask |-> 0, draw |-> 0, decimal_places |-> 0, price |-> 0,
     pc |-> "none"]

\* The exchange configuration of a bot: one with a DUMMY or TEST api key,
\* one whose exchange code get_exchange_client knows, one whose code it does
\* not know.
Exchanges == {"test", "known", "unknown"}

\* A configuration as created, with nothing started yet.
\* No activate request is in progress.  read is the row as get_object
\* returned it.
NoView == [pc |-> "none", read |-> [is_active |-> FALSE, status |-> "idle"]]

Created ==
    /\ params \in [total_order_volume : {MaxVolume},
                   per_order_volume : 2..MaxVolume,
                   quantity_decimal_places : {0, 1},
                   tolerance : {1},
                   exchange : Exchanges]
    /\ cfg = NewBotConfig(params.total_order_volume)
    /\ orders = 0
    /\ registry = 0
    /\ task = [t \in Tasks |-> NoTask]
    /\ req = [r \in Reqs |-> IdleReq]
    /\ issued = 0
    /\ reply = "none"
    /\ bots = FALSE
    /\ bot = NoBot
    /\ mreq = "idle"
    /\ mreply = "none"
    /\ bot_status = "idle"
    /\ view = NoView

Init ==
    /\ Created
    /\ quote = NoQuote
    /\ is_active = FALSE

\* ------------------------------------------------- crypto_bot/views.py
\* BotConfigViewSet.start: get_object, the two checks, then the call of
\* run_trading_bot.
View_start(r) ==
    /\ Accepts(r)
    /\ issued' = issued + 1
    /\ IF cfg.status = "running"
         THEN Return(r, "err_already_in_state")
         ELSE IF cfg.remaining <= 0
                THEN Return(r, "err_no_volume")
                ELSE Goto(r, [IdleReq EXCEPT !.pc = "rtb_call"])
    /\ UNCHANGED <<cfg, params, orders, registry, task, quote, engineVars>>

\* run_trading_bot, up to its first await: the registry check, then the
\* read of the configuration.
RunTradingBot_Check(r) ==
    /\ req[r].pc = "rtb_call"
    /\ IF registry # 0
         THEN Return(r, "err_already_running")
         ELSE Goto(r, [req[r] EXCEPT !.pc = "rtb_got", !.copy = cfg])
    /\ UNCHANGED <<cfg, params, orders, registry, task, issued, quote, engineVars>>

\* run_trading_bot: update_bot_status(bot_config, 'running', None).
RunTradingBot_Update(r) ==
    /\ req[r].pc = "rtb_got"
    /\ cfg' = SetStatus(req[r].copy, "running", "none")
    /\ Goto(r, [req[r] EXCEPT !.pc = "rtb_updated", !.copy = NoCopy])
    /\ UNCHANGED <<params, orders, registry, task, issued, quote, engineVars>>

\* The task slot create_task uses: the lowest free one.
FreeTask ==
    CHOOSE t \in Tasks :
        task[t].pc = "none" /\ \A u \in Tasks : task[u].pc = "none" => t <= u

\* run_trading_bot: create_task, RUNNING_BOTS[bot_config_id] = task,
\* add_done_callback, return success.
RunTradingBot_Create(r) ==
    /\ req[r].pc = "rtb_updated"
    /\ \E t \in Tasks : task[t].pc = "none"
    /\ task' = [task EXCEPT ![FreeTask] = [NoTask EXCEPT !.pc = "created"]]
    /\ registry' = FreeTask
    /\ Return(r, "started")
    /\ UNCHANGED <<cfg, params, orders, issued, quote, engineVars>>

\* BotConfigViewSet.stop: get_object, the status check, then the call of
\* stop_bot.
View_stop(r) ==
    /\ Accepts(r)
    /\ issued' = issued + 1
    /\ IF cfg.status # "running"
         THEN Return(r, "ack_already_in_state")
         ELSE Goto(r, [IdleReq EXCEPT !.pc = "sb_call"])
    /\ UNCHANGED <<cfg, params, orders, registry, task, quote, engineVars>>

\* task.cancel(): requests cancellation of a task that is not done.
Cancel(t) ==
    [task EXCEPT ![t].cancel = IF task[t].pc = "finished" THEN @ ELSE TRUE]

\* stop_bot, up to its first await: the registry check, task.cancel(), then
\* the read of the configuration.
StopBot_Cancel(r) ==
    /\ req[r].pc = "sb_call"
    /\ IF registry = 0
         THEN /\ Return(r, "ack_not_running")
              /\ UNCHANGED task
         ELSE /\ task' = Cancel(registry)
              /\ Goto(r, [req[r] EXCEPT !.pc = "sb_got", !.copy = cfg])
    /\ UNCHANGED <<cfg, params, orders, registry, issued, quote, engineVars>>

\* stop_bot: update_bot_status(bot_config, 'stopped', None), return success.
StopBot_Update(r) ==
    /\ req[r].pc = "sb_got"
    /\ cfg' = SetStatus(req[r].copy, "stopped", "none")
    /\ Return(r, "stopped")
    /\ UNCHANGED <<params, orders, registry, task, issued, quote, engineVars>>

\* BotConfigViewSet.reset: get_object and the status check; reset_volume is
\* taken from the request.
View_reset(r) ==
    /\ Accepts(r)
    /\ issued' = issued + 1
    /\ IF cfg.status = "running"
         THEN Return(r, "err_running")
         ELSE \E rv \in BOOLEAN :
                Goto(r, [pc |-> "vr_save", copy |-> cfg, reset_volume |-> rv])
    /\ UNCHANGED <<cfg, params, orders, registry, task, quote, engineVars>>

\* BotConfigViewSet.reset: what the handler writes to its copy.
ResetCopy(copy, reset_volume) ==
    LET c == SetStatus(copy, "idle", "none")
    IN IF reset_volume
         THEN [c EXCEPT !.remaining = params.total_order_volume, !.completed = 0]
         ELSE c

\* BotConfigViewSet.reset: bot_config.save().
View_reset_Save(r) ==
    /\ req[r].pc = "vr_save"
    /\ cfg' = ResetCopy(req[r].copy, req[r].reset_volume)
    /\ Return(r, "reset")
    /\ UNCHANGED <<params, orders, registry, task, issued, quote, engineVars>>

\* BotConfigViewSet.active_bots: the queryset of running configurations.
ActiveBots_Query(r) ==
    /\ Accepts(r)
    /\ issued' = issued + 1
    /\ IF cfg.status = "running"
         THEN Goto(r, [req[r] EXCEPT !.pc = "ab_check", !.copy = cfg])
         ELSE Return(r, "listed_none")
    /\ UNCHANGED <<cfg, params, orders, registry, task, quote, engineVars>>

\* BotConfigViewSet.active_bots: bot.id in RUNNING_BOTS.
ActiveBots_Check(r) ==
    /\ req[r].pc = "ab_check"
    /\ IF registry = 0
         THEN Goto(r, [req[r] EXCEPT !.pc = "ab_save"])
         ELSE Return(r, "listed_active")
    /\ UNCHANGED <<cfg, params, orders, registry, task, issued, quote, engineVars>>

\* active_bots saving the zombie as stopped with no message.
ActiveBots_Save_Stopped(r) ==
    /\ req[r].pc = "ab_save"
    /\ cfg' = SetStatus(req[r].copy, "stopped", "none")
    /\ Return(r, "listed_none")
    /\ UNCHANGED <<params, orders, registry, task, issued, quote, engineVars>>

\* BotConfigViewSet.active_bots: the zombie is saved with status error.
ActiveBots_Save(r) ==
    /\ req[r].pc = "ab_save"
    /\ cfg' = SetStatus(req[r].copy, "error", "zombie")
    /\ Return(r, "listed_none")
    /\ UNCHANGED <<params, orders, registry, task, issued, quote, engineVars>>

\* ------------------------------------- utilssss/trading_bot.py, the loop
\* The finally block of simple_trading_bot_loop: the id is popped from
\* RUNNING_BOTS whichever task it maps to, and the coroutine is done.
Finally(t) ==
    /\ registry' = 0
    /\ task' = [task EXCEPT ![t] = [NoTask EXCEPT !.pc = "finished"]]

\* First step of the task: the coroutine runs to its first await, the read
\* of the configuration (line 88).
Loop_Start(t) ==
    /\ task[t].pc = "created"
    /\ ~task[t].cancel
    /\ task' = [task EXCEPT ![t].pc = "aw_init_read", ![t].copy = cfg]
    /\ UNCHANGED <<cfg, params, orders, registry, req, issued, quote, reply, engineVars>>

\* A task cancelled before its first step never runs the coroutine body.
Loop_CancelledBeforeStart(t) ==
    /\ task[t].pc = "created"
    /\ task[t].cancel
    /\ task' = [task EXCEPT ![t] = [NoTask EXCEPT !.pc = "finished"]]
    /\ UNCHANGED <<cfg, params, orders, registry, req, issued, quote, reply, engineVars>>

\* A faulty initialize_exchange_client that also fetches a ticker while
\* testing a real client; used to show that C8 tells the two apart.
InitCalls_WithTicker(outcome) ==
    IF outcome \in {"real_ok", "real_test_failed"} THEN {"pairs", "ticker"} ELSE {}

\* initialize_exchange_client: the exchange calls it makes.  A test
\* configuration gets the in-process mock client; otherwise the client of
\* get_exchange_client is tested with one get_trading_pairs call.
InitCalls(outcome) ==
    IF outcome \in {"real_ok", "real_test_failed"} THEN {"pairs"} ELSE {}

\* What initialize_exchange_client can come to for the exchange
\* configuration of the bot: get_exchange_client returns None for a code
\* that is not in its client_map.
InitOutcomes ==
    CASE params.exchange = "test" -> {"mock"}
      [] params.exchange = "known" -> {"real_ok", "real_test_failed"}
      [] params.exchange = "unknown" -> {"unsupported"}

\* Lines 89-110: client initialisation; on failure the status error is
\* saved (line 96), otherwise the loop is entered and the configuration is
\* refreshed (line 110).
Loop_Init(t) ==
    /\ task[t].pc = "aw_init_read"
    /\ ~task[t].cancel
    /\ \E outcome \in InitOutcomes :
         IF outcome \in {"mock", "real_ok"}
           THEN /\ task' = [task EXCEPT ![t].pc = "aw_refresh", ![t].copy = cfg,
                                        ![t].calls = InitCalls(outcome)]
                /\ UNCHANGED cfg
           ELSE /\ cfg' = SetStatus(task[t].copy, "error", "init_failed")
                /\ task' = [task EXCEPT ![t].pc = "aw_init_err", ![t].copy = NoCopy,
                                        ![t].calls = InitCalls(outcome)]
    /\ UNCHANGED <<params, orders, registry, req, issued, quote, reply, engineVars>>

\* Line 97: return after the failed initialisation.
Loop_InitFailed_Exit(t) ==
    /\ task[t].pc = "aw_init_err"
    /\ ~task[t].cancel
    /\ Finally(t)
    /\ UNCHANGED <<cfg, params, orders, req, issued, quote, reply, engineVars>>

\* Lines 120-124: the volume is used up; the status completed is saved.
OnVolumeDone(t) ==
    /\ cfg' = SetStatus(task[t].copy, "completed", "completed")
    /\ task' = [task EXCEPT ![t].pc = "aw_completed", ![t].copy = NoCopy]
    /\ UNCHANGED <<orders, registry>>

\* A faulty handling of a failed fetch that treats it as fatal: the status
\* error is saved and the loop returns; used to show that C9 tells the two
\* apart.
OnFetchFailure_Fatal(t, calls, book) ==
    /\ cfg' = SetStatus(task[t].copy, "error", "fetch_failed")
    /\ task' = [task EXCEPT ![t].pc = "aw_init_err", ![t].copy = NoCopy,
                            ![t].calls = @ \cup calls, ![t].book = book]
    /\ UNCHANGED <<orders, registry>>

\* Lines 126-138: what a failed market-data fetch leads to (sleep, continue).
OnFetchFailure(t, calls, book) ==
    /\ task' = [task EXCEPT ![t].pc = "sleep_retry", ![t].copy = NoCopy,
                            ![t].calls = @ \cup calls, ![t].book = book]
    /\ UNCHANGED <<cfg, orders, registry>>

\* Lines 140-145: no price or no quantity (sleep, continue).
OnNoParams(t, book) ==
    /\ task' = [task EXCEPT ![t].pc = "sleep_retry", ![t].copy = NoCopy,
                            ![t].calls = @ \cup {"ticker", "book"}, ![t].book = book]
    /\ UNCHANGED <<cfg, orders, registry>>

\* place_order: create_order on the exchange, then, when it succeeded, the
\* Order row (create_order_record).  A failed placement goes on to
\* update_last_run_time and the inter-cycle sleep.
PlaceOrder(t, book, ok) ==
    /\ task' = [task EXCEPT ![t].pc = IF ok THEN "aw_order_record" ELSE "sleeping",
                            ![t].copy = IF ok THEN @ ELSE NoCopy,
                            ![t].calls = @ \cup {"ticker", "book", "order"},
                            ![t].book = book,
                            ![t].quantity = CalcQuantity(task[t].copy)]
    /\ orders' = IF ok THEN orders + 1 ELSE orders
    /\ UNCHANGED <<cfg, registry>>

\* Lines 140-152: calculate_order_params on a two-sided book, then the
\* placement.  The tolerance of the configuration is not read.
OnBook(t, book) ==
    IF CalcQuantity(task[t].copy) = 0
      THEN OnNoParams(t, book)
      ELSE \E ok \in BOOLEAN : PlaceOrder(t, book, ok)

\* Lines 164-166: an exception in the cycle is logged; sleep, continue.
OnFault(t) ==
    /\ task' = [task EXCEPT ![t].pc = "sleep_fault", ![t].copy = NoCopy]
    /\ UNCHANGED <<cfg, orders, registry>>

\* One cycle of the loop from the refreshed configuration (line 111) to
\* its next await.  The exchange answers with a failure, with a book that
\* lacks a side, or with a book whose spread is within the tolerance
\* (tight) or above it (wide).
Loop_Cycle(t) ==
    /\ task[t].pc = "aw_refresh"
    /\ ~task[t].cancel
    /\ \/ /\ task[t].copy.status # "running"
          /\ Finally(t)
          /\ UNCHANGED <<cfg, orders>>
       \/ /\ task[t].copy.status = "running"
          /\ task[t].copy.remaining <= 0
          /\ OnVolumeDone(t)
       \/ /\ task[t].copy.status = "running"
          /\ task[t].copy.remaining > 0
          /\ \/ OnFetchFailure(t, {"ticker"}, "none")
             \/ OnFetchFailure(t, {"ticker", "book"}, "failed")
             \/ OnNoParams(t, "empty")
             \/ OnBook(t, "tight")
             \/ OnBook(t, "wide")
             \/ OnFault(t)
    /\ UNCHANGED <<params, req, issued, quote, reply, engineVars>>

\* Line 124: break after the status completed was saved.
Loop_Completed_Exit(t) ==
    /\ task[t].pc = "aw_completed"
    /\ ~task[t].cancel
    /\ Finally(t)
    /\ UNCHANGED <<cfg, params, orders, req, issued, quote, reply, engineVars>>

\* Lines 151-158: update_bot_after_order(bot_config, quantity), a whole-row
\* save of the loop's copy; then update_last_run_time (last_run only) and the
\* inter-cycle sleep.
Loop_UpdateStats(t) ==
    /\ task[t].pc = "aw_order_record"
    /\ ~task[t].cancel
    /\ cfg' = AfterOrder(task[t].copy, task[t].quantity)
    /\ task' = [task EXCEPT ![t].pc = "sleeping", ![t].copy = NoCopy]
    /\ UNCHANGED <<params, orders, registry, req, issued, quote, reply, engineVars>>

\* The sleep is over: loop top, then the refresh of line 110.
Loop_Wake(t) ==
    /\ task[t].pc \in {"sleeping", "sleep_retry", "sleep_fault"}
    /\ ~task[t].cancel
    /\ task' = [task EXCEPT ![t].pc = "aw_refresh", ![t].copy = cfg, ![t].calls = {},
                            ![t].book = "none", ![t].quantity = 0]
    /\ UNCHANGED <<cfg, params, orders, registry, req, issued, quote, reply, engineVars>>

\* CancelledError is raised at the pending await; the handler of line 168
\* reads the configuration (line 170).
Loop_Cancelled(t) ==
    /\ task[t].pc \in LoopAwaits
    /\ task[t].cancel
    /\ task' = [task EXCEPT ![t].pc = "aw_cancel_read", ![t].copy = cfg, ![t].cancel = FALSE,
                            ![t].calls = {}, ![t].book = "none",
                            ![t].quantity = 0]
    /\ UNCHANGED <<cfg, params, orders, registry, req, issued, quote, reply, engineVars>>

\* Line 172: update_bot_status(bot_config, 'stopped', "Bot was stopped").
Loop_CancelWrite(t) ==
    /\ task[t].pc = "aw_cancel_read"
    /\ ~task[t].cancel
    /\ cfg' = SetStatus(task[t].copy, "stopped", "stopped")
    /\ task' = [task EXCEPT ![t].pc = "aw_cancel_write", ![t].copy = NoCopy]
    /\ UNCHANGED <<params, orders, registry, req, issued, quote, reply, engineVars>>

\* The handler is done, or was itself cancelled at one of its awaits: the
\* finally block runs.
Loop_CancelExit(t) ==
    /\ \/ task[t].pc = "aw_cancel_write" /\ ~task[t].cancel
       \/ task[t].pc \in HandlerAwaits /\ task[t].cancel
    /\ Finally(t)
    /\ UNCHANGED <<cfg, params, orders, req, issued, quote, reply, engineVars>>

\* handle_task_completion, the done callback of the task.
handle_task_completion(t) ==
    /\ task[t].pc = "finished"
    /\ registry' = 0
    /\ task' = [task EXCEPT ![t] = NoTask]
    /\ UNCHANGED <<cfg, params, orders, req, issued, quote, reply, engineVars>>

\* ----------------------------------------------------------------- system
\* A control request arrives.
NewRequest(r) ==
    \/ View_start(r)
    \/ View_stop(r)
    \/ View_reset(r)
    \/ ActiveBots_Query(r)

\* A request being served advances.
HandlerStep(r) ==
    \/ RunTradingBot_Check(r)
    \/ RunTradingBot_Update(r)
    \/ RunTradingBot_Create(r)
    \/ StopBot_Cancel(r)
    \/ StopBot_Update(r)
    \/ View_reset_Save(r)
    \/ ActiveBots_Check(r)
    \/ ActiveBots_Save(r)

TaskStep(t) ==
    \/ Loop_Start(t)
    \/ Loop_CancelledBeforeStart(t)
    \/ Loop_Init(t)
    \/ Loop_InitFailed_Exit(t)
    \/ Loop_Cycle(t)
    \/ Loop_Completed_Exit(t)
    \/ Loop_UpdateStats(t)
    \/ Loop_Wake(t)
    \/ Loop_Cancelled(t)
    \/ Loop_CancelWrite(t)
    \/ Loop_CancelExit(t)
    \/ handle_task_completion(t)

Next ==
    \/ \E r \in Reqs : NewRequest(r)
    \/ \E r \in Reqs : HandlerStep(r)
    \/ \E t \in Tasks : TaskStep(t)

Spec == Init /\ [][Next]_vars

\* The event loop runs every ready coroutine and every sleep ends: a task
\* or a request being served that can step eventually does.  Nothing is
\* assumed about the arrival of requests or the answers of the exchange.
Fairness ==
    /\ \A t \in Tasks : WF_vars(TaskStep(t))
    /\ \A r \in Reqs : WF_vars(HandlerStep(r))

LiveSpec == Init /\ [][Next]_vars /\ Fairness

\* ------------------------------------------- the price of one order
Prices == MinPrice..MaxPrice

\* An order book with best bid <= best ask, the value random.uniform draws
\* between them, and the decimal_places of the configuration.
Quotes ==
    {q \in [bid : Prices, ask : Prices, draw : Prices, decimal_places : {0, 1},
            price : {0}, pc : {"book"}] :
        q.bid <= q.draw /\ q.draw <= q.ask}

PriceInit ==
    /\ Created
    /\ quote \in Quotes
    /\ is_active = FALSE

\* calculate_order_params computes the price sent to the exchange.
CalculateOrderParams ==
    /\ quote.pc = "book"
    /\ quote' = [quote EXCEPT !.price = CalcPrice(quote.draw, quote.decimal_places),
                              !.pc = "priced"]
    /\ UNCHANGED <<cfg, params, orders, registry, task, req, issued, reply, engineVars>>

PriceNext == CalculateOrderParams

PriceSpec == PriceInit /\ [][PriceNext]_vars


\* ======================================================== bot/engine.py
\* BotManager and TradingBot of bot/engine.py for one bot id.  The calls of
\* the BotManager are made one at a time.  TradingBot.start, TradingBot.stop
\* and run_trading_loop are coroutines of the manager's event loop and
\* interleave at their awaits.  Order and BotLog rows are only ever appended
\* and never read back by the engine; they are left out.

\* The awaits of run_trading_loop on a call of the exchange client: the pc
\* names the call that has been issued and is awaited.
ExchangeAwaits ==
    {"aw_wallet", "aw_book", "aw_ticker", "aw_book2", "aw_sell", "aw_buy"}

\* The sleeps of run_trading_loop (lines 209, 268, 271) and the log await
\* of line 145 before the loop is entered.
EngineSleeps == {"created", "sleep_tol", "sleep_fault", "sleeping"}

\* The loop ends in its finally clause: mark_bot_stopped saves
\* is_active = False.  BotManager.bots is not touched.
MarkBotStopped(b) ==
    /\ bot' = [b EXCEPT !.pc = "finally"]
    /\ is_active' = FALSE

\* PionexClient._init_session, called by _make_request for every call of
\* the client: the session is created when there is none.  Nothing calls
\* _close_session.
InitSession(pc, session) == session \/ pc \in ExchangeAwaits

\* The loop goes on to its next await.
EngineGoto(pc) ==
    /\ bot' = [bot EXCEPT !.pc = pc, !.session = InitSession(pc, @)]
    /\ UNCHANGED is_active

\* Lines 265-268: except Exception logs the error and sleeps; the loop then
\* goes round again.
EngineOnFault == EngineGoto("sleep_fault")

\* Line 148, the only place where run_trading_loop looks at the stop signal:
\* while self.running and not self.stop_event.is_set().  When it holds, the
\* cycle begins and get_wallet_balance is called.
TradingLoop_Top ==
    /\ bot.pc \in {"created", "sleep_tol", "sleeping"}
    /\ ~bot.cancel
    /\ IF bot.running /\ ~bot.stop_event
         THEN EngineGoto("aw_wallet")
         ELSE MarkBotStopped(bot)
    /\ UNCHANGED <<bots, mreq, mreply, bot_status, view, cryptoVars>>

\* Lines 152-159: the wallet arrives; a missing quote asset ends the loop.
TradingLoop_Wallet ==
    /\ bot.pc = "aw_wallet"
    /\ ~bot.cancel
    /\ \/ EngineGoto("aw_book")
       \/ MarkBotStopped([bot EXCEPT !.running = FALSE])
       \/ EngineOnFault
    /\ UNCHANGED <<bots, mreq, mreply, bot_status, view, cryptoVars>>

\* Lines 165-168: the order book arrives, the ticker is asked for.
TradingLoop_Book ==
    /\ bot.pc = "aw_book"
    /\ ~bot.cancel
    /\ \/ EngineGoto("aw_ticker")
       \/ EngineOnFault
    /\ UNCHANGED <<bots, mreq, mreply, bot_status, view, cryptoVars>>

\* Lines 171-187: the ticker arrives; an insufficient balance ends the loop,
\* otherwise the order book is fetched again.
TradingLoop_Ticker ==
    /\ bot.pc = "aw_ticker"
    /\ ~bot.cancel
    /\ \/ EngineGoto("aw_book2")
       \/ MarkBotStopped([bot EXCEPT !.running = FALSE])
       \/ EngineOnFault
    /\ UNCHANGED <<bots, mreq, mreply, bot_status, view, cryptoVars>>

\* Lines 190-235: the second order book arrives; a spread within the risk
\* tolerance sleeps and continues, otherwise the sell order is placed.
TradingLoop_Spread ==
    /\ bot.pc = "aw_book2"
    /\ ~bot.cancel
    /\ \/ EngineGoto("sleep_tol")
       \/ EngineGoto("aw_sell")
       \/ EngineOnFault
    /\ UNCHANGED <<bots, mreq, mreply, bot_status, view, cryptoVars>>

\* Lines 237-252: the sell order is saved and the buy order is placed.
TradingLoop_Sell ==
    /\ bot.pc = "aw_sell"
    /\ ~bot.cancel
    /\ \/ EngineGoto("aw_buy")
       \/ EngineOnFault
    /\ UNCHANGED <<bots, mreq, mreply, bot_status, view, cryptoVars>>

\* Lines 254-271: the buy order is saved, the loop sleeps.
TradingLoop_Buy ==
    /\ bot.pc = "aw_buy"
    /\ ~bot.cancel
    /\ \/ EngineGoto("sleeping")
       \/ EngineOnFault
    /\ UNCHANGED <<bots, mreq, mreply, bot_status, view, cryptoVars>>

\* Lines 268-271: after the sleep of the except clause comes the sleep that
\* ends every cycle.
TradingLoop_FaultSleep ==
    /\ bot.pc = "sleep_fault"
    /\ ~bot.cancel
    /\ EngineGoto("sleeping")
    /\ UNCHANGED <<bots, mreq, mreply, bot_status, view, cryptoVars>>

\* Lines 273-280: CancelledError is raised at the pending await, logged and
\* raised again through the finally clause.
TradingLoop_Cancelled ==
    /\ bot.pc \in EngineSleeps \cup ExchangeAwaits
    /\ bot.cancel
    /\ MarkBotStopped(bot)
    /\ UNCHANGED <<bots, mreq, mreply, bot_status, view, cryptoVars>>

\* The task is done.
TradingLoop_Exit ==
    /\ bot.pc = "finally"
    /\ bot' = [bot EXCEPT !.pc = "done"]
    /\ UNCHANGED <<bots, is_active, mreq, mreply, bot_status, view, cryptoVars>>

\* BotManager.start_bot, lines 367-373: the check of self.bots and the new
\* TradingBot.  The model follows one TradingBot object: a start while the
\* object of an abandoned start is still at work is not followed.
BotManager_start_bot ==
    /\ mreq = "idle"
    /\ view.pc \in {"none", "activate_call"}
    /\ view' = IF view.pc = "activate_call"
                 THEN [view EXCEPT !.pc = "activate_wait"] ELSE view
    /\ IF bots
         THEN /\ mreply' = "False"
              /\ UNCHANGED <<mreq, bot>>
         ELSE /\ bot.pc \in {"none", "done"}
              /\ mreq' = "start_call"
              /\ bot' = NoBot
              /\ UNCHANGED mreply
    /\ UNCHANGED <<bots, is_active, bot_status, cryptoVars>>

\* TradingBot.start with initialize: get_exchange_client raises for an
\* exchange it does not know, and start returns False; otherwise the loop
\* task is created.
TradingBot_start ==
    /\ mreq = "start_call"
    /\ \/ /\ mreply' = "False"
          /\ mreq' = "idle"
          /\ UNCHANGED bot
       \/ /\ bot' = [NoBot EXCEPT !.running = TRUE, !.pc = "created"]
          /\ mreq' = "start_result"
          /\ UNCHANGED mreply
    /\ UNCHANGED <<bots, is_active, bot_status, view, cryptoVars>>

\* BotManager.start_bot, lines 382 and 392-394: future.result(timeout=30)
\* raises when bot.start() has not finished in time; the except branch
\* returns False.  The coroutine stays scheduled on the event loop.
BotManager_start_Timeout ==
    /\ mreq = "start_call"
    /\ bot' = [bot EXCEPT !.pc = "starting"]
    /\ mreply' = "False"
    /\ mreq' = "idle"
    /\ UNCHANGED <<bots, is_active, bot_status, view, cryptoVars>>

\* TradingBot.start running to its end after the manager stopped waiting
\* for it: initialize fails, or the loop task is created.
TradingBot_start_Late ==
    /\ bot.pc = "starting"
    /\ \/ bot' = NoBot
       \/ bot' = [NoBot EXCEPT !.running = TRUE, !.pc = "created"]
    /\ UNCHANGED <<bots, is_active, mreq, mreply, bot_status, view, cryptoVars>>

\* BotManager.start_bot, lines 383-386: the bot that started is registered.
BotManager_register ==
    /\ mreq = "start_result"
    /\ bots' = TRUE
    /\ mreply' = "True"
    /\ mreq' = "idle"
    /\ UNCHANGED <<bot, is_active, bot_status, view, cryptoVars>>

\* BotManager.stop_bot, lines 407-411: an id that is not in self.bots gets
\* the return value False.
BotManager_stop_bot ==
    /\ mreq = "idle"
    /\ view.pc = "none"
    /\ IF bots
         THEN /\ mreq' = "stop_call"
              /\ UNCHANGED mreply
         ELSE /\ mreply' = "False"
              /\ UNCHANGED mreq
    /\ UNCHANGED <<bots, bot, is_active, bot_status, view, cryptoVars>>

\* TradingBot.stop, lines 119-127: False when the bot is not running,
\* otherwise the stop signal is set and the task is awaited.  stop_bot
\* returns False without deleting the entry when stop returned False.
TradingBot_stop ==
    /\ mreq = "stop_call"
    /\ IF bot.running
         THEN /\ bot' = [bot EXCEPT !.running = FALSE, !.stop_event = TRUE]
              /\ mreq' = "stop_wait"
              /\ UNCHANGED mreply
         ELSE /\ mreply' = "False"
              /\ mreq' = "idle"
              /\ UNCHANGED bot
    /\ UNCHANGED <<bots, is_active, bot_status, view, cryptoVars>>

\* TradingBot.stop, lines 129-131: ten seconds have passed, wait_for cancels
\* the task and goes on waiting for it.
TradingBot_stop_Timeout ==
    /\ mreq = "stop_wait"
    /\ bot.pc # "done"
    /\ ~bot.cancel
    /\ bot' = [bot EXCEPT !.cancel = TRUE]
    /\ UNCHANGED <<bots, is_active, mreq, mreply, bot_status, view, cryptoVars>>

\* TradingBot.stop returns True once the task is done; stop_bot deletes the
\* entry (lines 419-422).
BotManager_unregister ==
    /\ mreq = "stop_wait"
    /\ bot.pc = "done"
    /\ bots' = FALSE
    /\ mreply' = "True"
    /\ mreq' = "idle"
    /\ UNCHANGED <<bot, is_active, bot_status, view, cryptoVars>>

\* BotViewSet.activate, lines 122-129: an active row is answered at once;
\* otherwise is_active = True and status = 'running' are saved before the
\* manager is called.
BotViewSet_activate ==
    /\ mreq = "idle"
    /\ view.pc = "none"
    /\ IF is_active
         THEN /\ mreply' = "already_active"
              /\ UNCHANGED <<is_active, bot_status, view>>
         ELSE /\ is_active' = TRUE
              /\ bot_status' = "running"
              /\ view' = [pc |-> "activate_call",
                          read |-> [is_active |-> is_active, status |-> bot_status]]
              /\ UNCHANGED mreply
    /\ UNCHANGED <<bots, bot, mreq, cryptoVars>>

\* BotViewSet.activate, lines 132-144: start_bot has returned; on False the
\* row is saved with is_active = False and status = 'stopped'.
BotViewSet_activate_Return ==
    /\ view.pc = "activate_wait"
    /\ mreq = "idle"
    /\ IF mreply = "True"
         THEN /\ mreply' = "activated"
              /\ UNCHANGED <<is_active, bot_status>>
         ELSE /\ is_active' = FALSE
              /\ bot_status' = "stopped"
              /\ mreply' = "activate_failed"
    /\ view' = NoView
    /\ UNCHANGED <<bots, bot, mreq, cryptoVars>>

TradingLoopStep ==
    \/ TradingLoop_Top
    \/ TradingLoop_Wallet
    \/ TradingLoop_Book
    \/ TradingLoop_Ticker
    \/ TradingLoop_Spread
    \/ TradingLoop_Sell
    \/ TradingLoop_Buy
    \/ TradingLoop_FaultSleep
    \/ TradingLoop_Cancelled
    \/ TradingLoop_Exit

ManagerStep ==
    \/ TradingBot_start
    \/ BotManager_start_Timeout
    \/ TradingBot_start_Late
    \/ BotViewSet_activate_Return
    \/ BotManager_register
    \/ TradingBot_stop
    \/ TradingBot_stop_Timeout
    \/ BotManager_unregister

EngineInit ==
    /\ Created
    /\ quote = NoQuote
    /\ is_active \in BOOLEAN

EngineNext ==
    \/ BotViewSet_activate
    \/ BotManager_start_bot
    \/ BotManager_stop_bot
    \/ ManagerStep
    \/ TradingLoopStep

EngineSpec == EngineInit /\ [][EngineNext]_vars

\* The manager's event loop runs every ready coroutine, sleeps end and the
\* waits of the manager are bounded.  Nothing is assumed about when the
\* manager is called or what the exchange answers.
EngineFairness ==
    /\ WF_vars(TradingLoopStep)
    /\ WF_vars(ManagerStep)
    /\ WF_vars(BotManager_start_bot /\ view.pc = "activate_call")

EngineLiveSpec == EngineInit /\ [][EngineNext]_vars /\ EngineFairness


\* ================================================================= claims
AliveTasks == {t \in Tasks : Alive(t)}

\* C1: for the configuration id at most one run loop is alive at any time,
\* however the start calls interleave.
C1_AtMostOneLoop == Cardinality(AliveTasks) <= 1

\* C2: a configuration whose persisted status is running is owned by
\* exactly one live run loop, and that loop is the registered one.
C2_RunningOwnedByRegisteredLoop ==
    cfg.status = "running" =>
        /\ registry # 0
        /\ AliveTasks = {registry}

\* C3: a configuration whose persisted status is completed, error or
\* stopped has no live run loop and no registry entry.
C3_TerminalHasNoLoop ==
    cfg.status \in {"completed", "error", "stopped"} =>
        /\ registry = 0
        /\ AliveTasks = {}

\* C4: the persisted remaining_volume is never below zero.
C4_RemainingNeverNegative == cfg.remaining >= 0

ResetRestores ==
    \E r \in Reqs :
        /\ req[r].pc = "vr_save"
        /\ req[r].reset_volume
        /\ req'[r].pc = "idle"
        /\ cfg'.remaining = params.total_order_volume

\* Some writer saves a row whose remaining_volume is at most that of the
\* copy it had read.
WritesAtMostItsCopy ==
    \/ \E r \in Reqs :
        /\ req[r].copy.status # "none"
        /\ req'[r] # req[r]
        /\ cfg'.remaining <= req[r].copy.remaining
    \/ \E t \in Tasks :
        /\ task[t].copy.status # "none"
        /\ task'[t] # task[t]
        /\ cfg'.remaining <= task[t].copy.remaining

C6_PriceWithinBook ==
    quote.pc = "priced" => quote.bid <= quote.price /\ quote.price <= quote.ask

\* C7: a cycle whose order book has a spread within the tolerance places
\* no order.
C7_TightSpreadPlacesNothing ==
    \A t \in Tasks : task[t].book = "tight" => "order" \notin task[t].calls

\* The cycle of task t begins (no cancellation is pending) with status
\* running and no remaining volume, and this step takes it.
ExhaustedCycle(t) ==
    /\ task[t].pc = "aw_refresh"
    /\ ~task[t].cancel
    /\ task[t].copy.status = "running"
    /\ task[t].copy.remaining <= 0
    /\ task'[t].pc # "aw_refresh"

\* After the status completed was saved the loop only exits (or handles a
\* cancellation that arrived meanwhile).
LeavesAfterCompleted(t) ==
    task[t].pc = "aw_completed" /\ task'[t].pc # "aw_completed"
        => task'[t].pc \in {"finished", "aw_cancel_read"}

\* C8 as stated: a cycle that begins with no remaining volume saves the
\* status completed, the loop exits, and no exchange call at all was made
\* since the loop was started.
C8_NoExchangeCallAtAll ==
    [][\A t \in Tasks :
         /\ ExhaustedCycle(t) =>
              /\ task'[t].pc = "aw_completed"
              /\ cfg'.status = "completed"
              /\ task'[t].calls = {}
         /\ LeavesAfterCompleted(t)]_vars

\* C8 amended: a cycle that begins with no remaining volume saves the
\* status completed, the loop exits, and no ticker, order book or placement
\* call was made; the one exchange call that may have been made since the
\* loop was started is the get_trading_pairs test of client initialisation.
C8_OnlyConnectivityTestCall ==
    [][\A t \in Tasks :
         /\ ExhaustedCycle(t) =>
              /\ task'[t].pc = "aw_completed"
              /\ cfg'.status = "completed"
              /\ task'[t].calls \subseteq {"pairs"}
         /\ LeavesAfterCompleted(t)]_vars

\* C8 witness: a loop found the volume used up in its first cycle, after
\* the connectivity test of a real client.
C8_CompletedInFirstCycle ==
    \E t \in Tasks : task[t].pc = "aw_completed" /\ task[t].calls = {"pairs"}

\* C9: the cycle in which get_order_book fails creates no Order row and
\* changes neither counters nor status, and the loop sleeps and goes on to
\* another cycle (unless it is cancelled).
C9_BookFailureIsRetried ==
    [][\A t \in Tasks :
         /\ (task[t].book # "failed" /\ task'[t].book = "failed") =>
              /\ cfg' = cfg
              /\ orders' = orders
              /\ registry' = registry
              /\ task'[t].pc = "sleep_retry"
         /\ (task[t].book = "failed" /\ task'[t].pc # task[t].pc) =>
              task'[t].pc \in {"aw_refresh", "aw_cancel_read"}]_vars

\* C9 witness: a loop sleeps after a failed order book fetch.
C9_SleepsAfterBookFailure ==
    \E t \in Tasks : task[t].pc = "sleep_retry" /\ task[t].book = "failed"

\* The stop of a registered bot has requested the cancellation of task t
\* while it is suspended in the inter-cycle sleep.
StoppedInSleep(t) ==
    /\ registry = t
    /\ task[t].pc = "sleeping"
    /\ task[t].cancel

\* C10: after a stop that finds the registered loop in its inter-cycle
\* sleep, eventually the loop has exited, the persisted status is stopped
\* and the registry has no entry for the id.
C10_StopDuringSleepStops ==
    \A t \in Tasks :
        StoppedInSleep(t) ~> (~Alive(t) /\ cfg.status = "stopped" /\ registry = 0)

\* ------------------------------------- the update route of the viewset
\* BotConfigViewSet is a ModelViewSet: PUT and PATCH reach the row through
\* BotConfigSerializer, whose read_only_fields leave total_order_volume
\* writable.  update reads the row (get_object) ...
View_update(r) ==
    /\ Accepts(r)
    /\ issued' = issued + 1
    /\ Goto(r, [pc |-> "vu_save", copy |-> cfg, reset_volume |-> FALSE])
    /\ UNCHANGED <<cfg, params, orders, registry, task, quote, engineVars>>

\* ... and saves it whole with the total_order_volume of the request;
\* remaining_volume and completed_volume are read-only and stay as read.
View_update_Save(r) ==
    /\ req[r].pc = "vu_save"
    /\ \E total \in 1..MaxVolume :
         params' = [params EXCEPT !.total_order_volume = total]
    /\ cfg' = req[r].copy
    /\ Return(r, "updated")
    /\ UNCHANGED <<orders, registry, task, issued, quote, engineVars>>

UpdateNext ==
    \/ Next
    \/ \E r \in Reqs : View_update(r)
    \/ \E r \in Reqs : View_update_Save(r)

UpdateSpec == Init /\ [][UpdateNext]_vars

\* C11: a stop for a bot that is already stopped (its id is not in the
\* registry) is answered with a non-error acknowledgement and changes neither
\* the persisted configuration nor the registry.  BotManager.stop_bot
\* answers it with False, its return value for a stop that failed.
C11_StopOfStoppedBotAcknowledged ==
    [][(BotManager_stop_bot /\ ~bots) =>
         /\ mreply' # "False"
         /\ UNCHANGED <<bots, bot, is_active>>]_vars

C13_StartWithoutVolumeFails ==
    [][\A r \in Reqs :
         /\ (View_start(r) /\ cfg.status # "running" /\ cfg.remaining <= 0) =>
               /\ reply' = "err_no_volume"
               /\ UNCHANGED <<cfg, registry, task>>
         /\ (/\ req[r].pc = "rtb_got"
             /\ req[r].copy.remaining <= 0
             /\ req'[r] # req[r]) =>
               /\ reply' = "err_no_volume"
               /\ UNCHANGED <<cfg, registry, task>>]_vars

\* C14: a stop for an id that is in the registry returns, reports success,
\* and when it returns the id is no longer in the registry.
C14_StopOfRegisteredSucceeds ==
    [][(mreq \in {"stop_call", "stop_wait"} /\ mreq' = "idle") =>
         /\ mreply' = "True"
         /\ ~bots']_vars

\* The loop of bot/engine.py has ended without a stop having been signalled:
\* a missing quote asset or an insufficient balance.
EndedOnItsOwn == bot.pc = "done" /\ ~bot.stop_event

\* C15: when a run loop has ended on its own, its id is eventually removed
\* from the registry.
C15_EndedLoopLeavesRegistry == (bots /\ EndedOnItsOwn) ~> ~bots

\* C16: a configuration with status completed or error keeps that status
\* until a reset sets it to idle, and status running is entered only from
\* idle or stopped.
C16_TerminalUntilReset ==
    [][/\ (cfg.status \in {"completed", "error"} /\ cfg'.status # cfg.status) =>
            /\ cfg'.status = "idle"
            /\ \E r \in Reqs : View_reset_Save(r)
       /\ (cfg'.status = "running" /\ cfg.status # "running") =>
            cfg.status \in {"idle", "stopped"}]_vars

\* C17: a bot whose exchange identifier is not supported is never started:
\* the start call returns an error, the configuration is not marked running
\* and no loop is created or registered.
C17_UnsupportedExchangeNotStarted ==
    params.exchange = "unknown" =>
        /\ reply # "started"
        /\ cfg.status # "running"
        /\ registry = 0
        /\ \A t \in Tasks : task[t].pc = "none"

\* C18: when an exception other than a fetch failure is raised inside a
\* cycle, the loop persists status error with an error_message and exits; it
\* does not run another cycle.
C18_FaultEndsLoop ==
    [][\A t \in Tasks :
         /\ (task[t].pc # "sleep_fault" /\ task'[t].pc = "sleep_fault") =>
               /\ cfg'.status = "error"
               /\ cfg'.msg # "none"
         /\ task[t].pc = "sleep_fault" => task'[t].pc # "aw_refresh"]_vars

\* C19: once stop has set the stop signal of a loop, that loop issues no
\* further call of the exchange client.
C19_NoExchangeCallAfterStop ==
    [][bot.stop_event => ~(bot'.pc \in ExchangeAwaits /\ bot'.pc # bot.pc)]_vars

\* The cycle of task t places an order and the placement fails.
PlacementFails(t) ==
    /\ task[t].pc = "aw_refresh"
    /\ task'[t].pc = "sleeping"
    /\ "order" \in task'[t].calls

\* C20: when an order placement fails, total_orders is incremented by one,
\* successful_orders, remaining_volume and completed_volume are unchanged
\* and no Order record is created.
C20_FailedPlacementCountsAttempt ==
    [][\A t \in Tasks : PlacementFails(t) =>
         /\ cfg'.total_orders = cfg.total_orders + 1
         /\ cfg'.successful_orders = cfg.successful_orders
         /\ cfg'.remaining = cfg.remaining
         /\ cfg'.completed = cfg.completed
         /\ orders' = orders]_vars

\* C21: a placement the loop treats as successful has persisted one Order,
\* and in the same cycle the loop decreases remaining_volume by the order's
\* quantity, increases completed_volume by it and increments total_orders
\* and successful_orders: an Order is never persisted without the counters
\* advancing.
C21_OrderAdvancesCounters ==
    [][\A t \in Tasks :
         (task[t].pc = "aw_order_record" /\ task'[t].pc # "aw_order_record") =>
            LET quantity == CalcQuantity(task[t].copy)
            IN /\ cfg'.total_orders = cfg.total_orders + 1
               /\ cfg'.successful_orders = cfg.successful_orders + 1
               /\ cfg'.remaining = cfg.remaining - quantity
               /\ cfg'.completed = cfg.completed + quantity]_vars

\* C22: the counter update at the end of a cycle is an atomic
\* read-modify-write of the persisted configuration: what another actor has
\* written to it since the loop's read at the top of the cycle is kept, and
\* the counters move from their persisted values.
C22_CounterUpdateKeepsOtherWrites ==
    [][\A t \in Tasks :
         (task[t].pc = "aw_order_record" /\ task'[t].pc = "sleeping") =>
            cfg' = AfterOrder(cfg, CalcQuantity(task[t].copy))]_vars

\* C23: on every exit path of the run loop the session of its exchange
\* client is closed: no loop has terminated with its session still open.
C23_NoOpenSessionAfterExit == bot.pc = "done" => ~bot.session

\* The cycle of task t reaches the placement of an order.
PlacesOrder(t) ==
    /\ task[t].pc = "aw_refresh"
    /\ "order" \in task'[t].calls

\* The cycle of task t has a two-sided order book and a quantity that
\* rounds to nothing.
ZeroQuantityCycle(t) ==
    /\ task[t].pc = "aw_refresh"
    /\ task'[t].book \in {"tight", "wide"}
    /\ PyRoundHalves(Min(params.per_order_volume, task[t].copy.remaining),
                     params.quantity_decimal_places) <= 0

C25_RemovesOnlyOwnEntry ==
    [][(registry # 0 /\ registry' = 0) =>
         task'[registry].pc \in {"none", "finished"}]_vars

\* C26: active_bots never forces to error a configuration whose start is in
\* progress or has succeeded: when it saves status error, no start has
\* saved status running without having registered its loop yet, and no loop
\* of the configuration is alive.
C26_ReconcileSparesStartingBot ==
    [][\A r \in Reqs :
         (req[r].pc = "ab_save" /\ req'[r].pc = "idle") =>
            /\ \A s \in Reqs : req[s].pc # "rtb_updated"
            /\ \A t \in Tasks : ~Alive(t)]_vars

\* ------------------------------------------- a run in which nothing fails
\* One start request, no stop, reset or reconcile; the exchange
\* configuration is one whose client can be created, and every exchange call
\* and every placement succeeds.
AllSucceedInit ==
    /\ Init
    /\ params.exchange # "unknown"

\* The step of task t is not the outcome of a failed or one-sided exchange
\* answer, of a failed placement or of a fault.
Succeeds(t) ==
    /\ task'[t].pc \notin {"aw_init_err", "sleep_fault"}
    /\ task'[t].pc = "sleep_retry" => task'[t].book \in {"tight", "wide"}
    /\ task'[t].pc = "sleeping" => "order" \notin task'[t].calls

AllSucceedTaskStep(t) ==
    \/ Loop_Start(t)
    \/ Loop_Init(t) /\ Succeeds(t)
    \/ Loop_Cycle(t) /\ Succeeds(t)
    \/ Loop_Completed_Exit(t)
    \/ Loop_UpdateStats(t)
    \/ Loop_Wake(t)
    \/ handle_task_completion(t)

AllSucceedStart(r) ==
    \/ View_start(r) /\ issued = 0
    \/ RunTradingBot_Check(r)
    \/ RunTradingBot_Update(r)
    \/ RunTradingBot_Create(r)

AllSucceedNext ==
    \/ \E r \in Reqs : AllSucceedStart(r)
    \/ \E t \in Tasks : AllSucceedTaskStep(t)

\* The event loop runs every ready coroutine and every sleep ends.
AllSucceedSpec ==
    /\ AllSucceedInit
    /\ [][AllSucceedNext]_vars
    /\ \A t \in Tasks : WF_vars(AllSucceedTaskStep(t))
    /\ \A r \in Reqs : WF_vars(AllSucceedStart(r))

\* C27: with no stop requested and every exchange call and placement
\* succeeding, a running bot with remaining_volume > 0 eventually reaches
\* status completed.
C27_RunningBotCompletes ==
    (cfg.status = "running" /\ cfg.remaining > 0) ~> cfg.status = "completed"

\* The run loop of the TradingBot exists and has not ended.
LoopLive == bot.pc \notin {"none", "starting", "done"}

\* C28: every live run loop is reachable through the registry under its id;
\* a loop outside the registry belongs to a start that has not reported yet.
C28_LiveLoopIsRegistered == LoopLive => (bots \/ mreq = "start_result")

\* C29: a start request that fails leaves the configuration's persisted
\* status and active flag as they were before the request, and leaves the
\* registry unchanged.
C29_FailedStartChangesNothing ==
    [][(view.pc = "activate_wait" /\ mreply' = "activate_failed") =>
         /\ bot_status' = view.read.status
         /\ is_active' = view.read.is_active
         /\ bots' = bots]_vars

\* C30: in every reachable state of a configuration, completed_volume +
\* remaining_volume = total_order_volume.
C30_VolumeIsConserved ==
    cfg.completed + cfg.remaining = params.total_order_volume

====
